---- MODULE Spec2Model ----
(***************************************************************************)
(* A model of the Consul-backed gRPC connection manager (connmanager.go):  *)
(* the connection pool (conns guarded by the RWMutex mu), replaceConn,     *)
(* CloseAll, GetConn, Start/Stop and the per-service watchService loop.    *)
(***************************************************************************)
EXTENDS Integers, Sequences, FiniteSets, TLC

(* ------------------------------ bounds --------------------------------- *)
\* how many connections the loops may dial in one run
MaxDials == 2
\* how many connections a test may make in one run
MaxTestConns == 3
\* how many times the directory changes in one run
MaxDirChanges == 1
\* the bits of a time.Duration (an int64, of 64 bits, in the program)
DurationBits == 6

(* ----------------------------- vocabulary ------------------------------ *)
\* a nil *grpc.ClientConn; real handles are 1, 2, ...
NilConn == 0
Handles == 1..(IF MaxDials > MaxTestConns THEN MaxDials ELSE MaxTestConns)

\* the error GetConn returns for a missing service, and the nil error
ErrConnNotFound == "grpc_connection_not_found"
NoErr == "nil"

\* service names a caller may ask for; "orders" is in no watch list
Names == {"users", "billing", "orders"}
\* the service lists given to New (non-empty; New copies them as they are)
WatchLists == {<<"users", "billing">>}

\* health entries of the directory: Service.Address, Node.Address, Service.Port
\* (the second has no service address of its own)
UserInstances ==
    { [saddr |-> "10.0.0.1", naddr |-> "node1", port |-> 9000],
      [saddr |-> "", naddr |-> "10.0.0.2", port |-> 9000] }
BillingInstances == { [saddr |-> "10.0.1.1", naddr |-> "node3", port |-> 8080] }
\* the instances registered for a service, healthy or not
Registered(service) ==
    IF service = "users" THEN UserInstances
    ELSE IF service = "billing" THEN BillingInstances ELSE {}
Instances == UserInstances \cup BillingInstances

Digit(d) ==
    CASE d = 0 -> "0" [] d = 1 -> "1" [] d = 2 -> "2" [] d = 3 -> "3"
      [] d = 4 -> "4" [] d = 5 -> "5" [] d = 6 -> "6" [] d = 7 -> "7"
      [] d = 8 -> "8" [] OTHER -> "9"

RECURSIVE Itoa(_)
\* %d of a non-negative integer
Itoa(n) == IF n < 10 THEN Digit(n) ELSE Itoa(n \div 10) \o Digit(n % 10)

\* fmt.Sprintf(addrTemplate, addr, port) with addrTemplate = "%s:%d"
FormatTarget(addr, port) == addr \o ":" \o Itoa(port)

\* addr := selected.Service.Address; if addr == "" { addr = selected.Node.Address }
AddrOf(inst) == IF inst.saddr = "" THEN inst.naddr ELSE inst.saddr

(* ------------------------------ durations ------------------------------ *)
MaxDuration == 2^(DurationBits - 1) - 1
\* signed arithmetic of DurationBits bits: the sum wraps around
WrapDuration(x) ==
    ((x + 2^(DurationBits - 1)) % 2^DurationBits) - 2^(DurationBits - 1)
\* the durations WithRefreshInterval accepts: if d <= 0 { return error }
Intervals == 1..MaxDuration
\* the refresh interval of the runs of the whole program, in nanoseconds
RunInterval == 2

(* ------------------------------ processes ------------------------------ *)
LoopIds == 1..2
Loop(i) == <<"loop", i>>
Sup == <<"sup", 0>>
Caller == <<"caller", 0>>
NoProc == <<"none", 0>>
Loops == {Loop(i) : i \in LoopIds}
Procs == Loops \cup {Sup, Caller}

VARIABLES
    watchList,    \* cm.watchList
    refreshInterval, \* cm.refreshInterval, a time.Duration
    delay,        \* the duration watchService sleeps after a failed query, per loop
    again,        \* per loop: len(entries) of the iteration's query when it
                  \* returned the index the loop passed in, 0 otherwise
    started,      \* Start has been called
    cancelled,    \* the context given to Start is done
    dir,          \* the directory: per service the healthy entries and the index
    pc,           \* where each goroutine is
    waitIdx,      \* watchService's waitIdx, per loop
    qerr,         \* watchService's err of the latest query, per loop
    sel,          \* watchService's selected entry, per loop
    arg,          \* the arguments of the pool call a goroutine is in
    mu,           \* cm.mu: the writer holding it and the readers holding it
    conns,        \* cm.conns
    closes,       \* how many times Close was called on each handle
    nextH,        \* the next handle the transport hands out
    result,       \* what the caller's latest GetConn returned
    committed,    \* cm.conns as of the latest Unlock of a writer
    pre,          \* cm.conns and closes as of the latest Lock of a writer
    stopReturned  \* Stop has returned at least once

vars == <<watchList, refreshInterval, delay, again, started, cancelled, dir, pc, waitIdx, qerr, sel, arg, mu,
          conns, closes, nextH, result, committed, pre, stopReturned>>

(* ------------------------------ the map -------------------------------- *)
EmptyMap == [k \in {} |-> [target |-> "", conn |-> NilConn]]
MapPut(m, k, e) == [x \in DOMAIN m \cup {k} |-> IF x = k THEN e ELSE m[x]]
MapDelete(m, k) == [x \in DOMAIN m \ {k} |-> m[x]]

NoInst == [saddr |-> "", naddr |-> "", port |-> 0]
NoArg == [svc |-> "", conn |-> NilConn, target |-> ""]
NoResult == [svc |-> "", conn |-> NilConn, err |-> NoErr]
NoPre == [conns |-> EmptyMap, closes |-> [h \in Handles |-> 0]]

\* conn.Close(): one more Close on the handle
CloseConn(cl, h) == [cl EXCEPT ![h] = @ + 1]

\* the services Start launches a loop for
Watched == {watchList[i] : i \in DOMAIN watchList}
SvcOf(i) == watchList[i]

\* the manager New(client, services, WithRefreshInterval(d)) returns
InitFor(services, d) ==
    /\ watchList = services
    /\ refreshInterval = d
    /\ delay = [i \in LoopIds |-> 0]
    /\ again = [i \in LoopIds |-> 0]
    /\ started = FALSE
    /\ cancelled = FALSE
    /\ dir = [s \in Names |-> [healthy |-> Registered(s), index |-> 1]]
    /\ pc = [p \in Procs |-> "idle"]
    /\ waitIdx = [i \in LoopIds |-> 0]
    /\ qerr = [i \in LoopIds |-> FALSE]
    /\ sel = [i \in LoopIds |-> NoInst]
    /\ arg = [p \in Procs |-> NoArg]
    /\ mu = [writer |-> NoProc, readers |-> {}]
    /\ conns = EmptyMap
    /\ closes = [h \in Handles |-> 0]
    /\ nextH = 1
    /\ result = NoResult
    /\ committed = EmptyMap
    /\ pre = NoPre
    /\ stopReturned = FALSE

Init == \E services \in WatchLists : InitFor(services, RunInterval)

(* ---------------------------- cm.mu (RWMutex) -------------------------- *)
\* a mutex that grants Lock() to anyone at any time
CanLockAlways(m) == TRUE

\* Lock() is granted when nobody holds the mutex
CanLock(m) == m.writer = NoProc /\ m.readers = {}
\* a GetConn that reads the map without waiting for the writer
CanRLockAlways(m) == TRUE

\* a deferred Unlock that is missing
UnlockForgotten(m) == m

\* Unlock(): the writer gives the mutex back
Unlocked(m) == [m EXCEPT !.writer = NoProc]

\* RLock() is granted when no writer holds the mutex
CanRLock(m) == m.writer = NoProc

\* a loop that never looks at its context
CheckDoneNever(done) == "query"

\* select { case <-ctx.Done(): return; default: } at the top of watchService's
\* loop: the loop ends when the context is done and queries otherwise
CheckDone(done) == IF done THEN "stopped" ELSE "query"

\* where a goroutine goes on when its pool call returns: a loop to its next
\* iteration, Start's goroutine to its end (its cancel() finds the context
\* done already), a caller to its own code
AfterPool(p) ==
    IF p \in Loops THEN CheckDone(cancelled) ELSE IF p = Sup THEN "done" ELSE "idle"

(* ------------------------------ replaceConn ---------------------------- *)
\* a replaceConn that never takes the same-target branch
SameTargetNever(m, service, target) == FALSE

\* existing, ok := cm.conns[service]; ok && existing.target == target
SameTarget(m, service, target) ==
    service \in DOMAIN m /\ m[service].target = target

\* a same-target branch that leaves the new connection open
DiscardNewSkipped(cl, conn) == cl

\* the same-target branch: if conn != nil { _ = conn.Close() }
DiscardNew(cl, conn) == IF conn # NilConn THEN CloseConn(cl, conn) ELSE cl

\* a replaceConn that forgets to close the connection it replaces
CloseOldSkipped(cl, m, service) == cl

\* if old, ok := cm.conns[service]; ok { _ = old.conn.Close() }
CloseOld(cl, m, service) ==
    IF service \in DOMAIN m THEN CloseConn(cl, m[service].conn) ELSE cl

\* if conn != nil { cm.conns[service] = &managedConn{...} } else { delete(...) }
Install(m, service, conn, target) ==
    IF conn # NilConn
    THEN MapPut(m, service, [target |-> target, conn |-> conn])
    ELSE MapDelete(m, service)

\* cm.mu.Lock(), then the same-target test and the Close it leads to on
\* either side
ReplLock(p) ==
    /\ pc[p] = "r_lock"
    /\ CanLock(mu)
    /\ mu' = [mu EXCEPT !.writer = p]
    /\ pre' = [conns |-> conns, closes |-> closes]
    /\ IF SameTarget(conns, arg[p].svc, arg[p].target)
       THEN /\ closes' = DiscardNew(closes, arg[p].conn)
            /\ pc' = [pc EXCEPT ![p] = "r_unlock"]
       ELSE /\ closes' = CloseOld(closes, conns, arg[p].svc)
            /\ pc' = [pc EXCEPT ![p] = "r_install"]
    /\ UNCHANGED <<watchList, refreshInterval, delay, again, started, cancelled, dir, waitIdx, qerr, sel, arg,
                   conns, nextH, result, committed, stopReturned>>

\* the map update
ReplInstall(p) ==
    /\ pc[p] = "r_install"
    /\ conns' = Install(conns, arg[p].svc, arg[p].conn, arg[p].target)
    /\ pc' = [pc EXCEPT ![p] = "r_unlock"]
    /\ UNCHANGED <<watchList, refreshInterval, delay, again, started, cancelled, dir, waitIdx, qerr, sel, arg,
                   mu, closes, nextH, result, committed, pre, stopReturned>>

\* the deferred cm.mu.Unlock(); replaceConn returns
ReplUnlock(p) ==
    /\ pc[p] = "r_unlock"
    /\ mu' = Unlocked(mu)
    /\ committed' = conns
    /\ pre' = NoPre
    /\ arg' = [arg EXCEPT ![p] = NoArg]
    /\ again' = IF p \in Loops THEN [again EXCEPT ![p[2]] = 0] ELSE again
    /\ pc' = [pc EXCEPT ![p] = AfterPool(p)]
    /\ UNCHANGED <<watchList, refreshInterval, delay, started, cancelled, dir, waitIdx,
                   qerr, sel, conns, closes, nextH, result, stopReturned>>

(* ------------------------------- CloseAll ------------------------------ *)
\* a CloseAll that closes nothing before it resets the map
CloseEachSkipped(cl, m, keys) == cl

RECURSIVE CloseEach(_, _, _)
\* for name, mc := range cm.conns { mc.conn.Close() }
CloseEach(cl, m, keys) ==
    IF keys = {} THEN cl
    ELSE LET k == CHOOSE x \in keys : TRUE
         IN CloseEach(CloseConn(cl, m[k].conn), m, keys \ {k})

\* a CloseAll that keeps the map it has just closed
ResetMapKept(m) == m

\* cm.conns = make(map[string]*managedConn)
ResetMap(m) == EmptyMap

\* who calls CloseAll: Start's goroutine once <-ctx.Done() returns, and a
\* caller through Stop
AtCloseAll(p) ==
    IF p = Sup THEN pc[p] = "s_wait" /\ cancelled ELSE pc[p] = "idle"

\* cm.mu.Lock(), then the loop that closes every connection held
CloseAllLock(p) ==
    /\ AtCloseAll(p)
    /\ CanLock(mu)
    /\ mu' = [mu EXCEPT !.writer = p]
    /\ pre' = [conns |-> conns, closes |-> closes]
    /\ closes' = CloseEach(closes, conns, DOMAIN conns)
    /\ pc' = [pc EXCEPT ![p] = "c_reset"]
    /\ UNCHANGED <<watchList, refreshInterval, delay, again, started, cancelled, dir, waitIdx, qerr, sel, arg,
                   conns, nextH, result, committed, stopReturned>>

CloseAllReset(p) ==
    /\ pc[p] = "c_reset"
    /\ conns' = ResetMap(conns)
    /\ pc' = [pc EXCEPT ![p] = "c_unlock"]
    /\ UNCHANGED <<watchList, refreshInterval, delay, again, started, cancelled, dir, waitIdx, qerr, sel, arg,
                   mu, closes, nextH, result, committed, pre, stopReturned>>

\* the deferred Unlock; CloseAll returns (to Stop when the caller ran it)
CloseAllUnlock(p) ==
    /\ pc[p] = "c_unlock"
    /\ mu' = Unlocked(mu)
    /\ committed' = conns
    /\ pre' = NoPre
    /\ stopReturned' = (stopReturned \/ (p = Caller /\ started))
    /\ pc' = [pc EXCEPT ![p] = AfterPool(p)]
    /\ UNCHANGED <<watchList, refreshInterval, delay, again, started, cancelled, dir, waitIdx, qerr, sel, arg,
                   conns, closes, nextH, result>>

(* -------------------------------- GetConn ------------------------------ *)
\* a GetConn that returns the zero value of a missing key and no error
LookupNoError(m, service) ==
    IF service \in DOMAIN m
    THEN [svc |-> service, conn |-> m[service].conn, err |-> NoErr]
    ELSE [svc |-> service, conn |-> NilConn, err |-> NoErr]

\* mc, ok := cm.conns[service]; if !ok { return nil, ErrConnNotFound }; return mc.conn, nil
Lookup(m, service) ==
    IF service \in DOMAIN m
    THEN [svc |-> service, conn |-> m[service].conn, err |-> NoErr]
    ELSE [svc |-> service, conn |-> NilConn, err |-> ErrConnNotFound]

\* a caller calls GetConn(service): cm.mu.RLock(), then the read of the map;
\* the return value is computed and the deferred RUnlock is still to run
GetConn(service) ==
    /\ pc[Caller] = "idle"
    /\ CanRLock(mu)
    /\ mu' = [mu EXCEPT !.readers = @ \cup {Caller}]
    /\ result' = Lookup(conns, service)
    /\ pc' = [pc EXCEPT ![Caller] = "g_runlock"]
    /\ UNCHANGED <<watchList, refreshInterval, delay, again, started, cancelled, dir, waitIdx, qerr, sel, arg,
                   conns, closes, nextH, committed, pre, stopReturned>>

\* the deferred cm.mu.RUnlock(); GetConn returns and the caller takes the value
GetConnRUnlock ==
    /\ pc[Caller] = "g_runlock"
    /\ mu' = [mu EXCEPT !.readers = @ \ {Caller}]
    /\ result' = NoResult
    /\ pc' = [pc EXCEPT ![Caller] = "idle"]
    /\ UNCHANGED <<watchList, refreshInterval, delay, again, started, cancelled, dir, waitIdx, qerr, sel, arg,
                   conns, closes, nextH, committed, pre, stopReturned>>

(* --------------------------------- Start ------------------------------- *)
\* Start: the goroutine that waits for ctx.Done(), and one watchService per
\* element of cm.watchList, each beginning with its check of ctx.Done()
Start ==
    /\ ~started
    /\ started' = TRUE
    /\ pc' = [p \in Procs |->
                IF p \in Loops THEN CheckDone(cancelled)
                ELSE IF p = Sup THEN "s_wait" ELSE pc[p]]
    /\ UNCHANGED <<watchList, refreshInterval, delay, again, cancelled, dir, waitIdx, qerr, sel, arg, mu, conns,
                   closes, nextH, result, committed, pre, stopReturned>>

\* the owner of the context given to Start cancels it
Cancel ==
    /\ ~cancelled
    /\ cancelled' = TRUE
    /\ UNCHANGED <<watchList, refreshInterval, delay, again, started, dir, pc, waitIdx, qerr, sel, arg, mu, conns,
                   closes, nextH, result, committed, pre, stopReturned>>

(* ----------------------------- watchService ---------------------------- *)
\* a loop that takes a failed query for an empty result
OnQueryErrorAsEmpty(service) ==
    [pc |-> "r_lock", arg |-> [svc |-> service, conn |-> NilConn, target |-> ""]]

\* if err != nil { Warn; time.Sleep(backoff(...)); continue }
OnQueryError(service) == [pc |-> "backoff", arg |-> NoArg]

\* a loop that loses its index when a query fails
IndexOnErrorCleared(idx) == 0

\* the error path does not assign waitIdx
IndexOnError(idx) == idx

\* rand.Int63n(n): it panics if n <= 0, and draws from [0, n) otherwise
Int63n(n) == IF n <= 0 THEN {} ELSE 0..(n - 1)

\* backoff(base): delta := base / 2; base + time.Duration(rand.Int63n(int64(delta)));
\* the values it may return, none when rand.Int63n panics
backoff(base) == {WrapDuration(base + r) : r \in Int63n(base \div 2)}

\* cm.client.Health().Service(...) returns an error: Warn, then backoff()
\* gives the duration of the Sleep; a panic in it ends the program
QueryFail(i) ==
    /\ pc[Loop(i)] = "query"
    /\ qerr' = [qerr EXCEPT ![i] = TRUE]
    /\ waitIdx' = [waitIdx EXCEPT ![i] = IndexOnError(@)]
    /\ IF backoff(refreshInterval) = {}
       THEN /\ pc' = [p \in Procs |-> "panic"]
            /\ UNCHANGED <<delay, arg>>
       ELSE /\ \E d \in backoff(refreshInterval) : delay' = [delay EXCEPT ![i] = d]
            /\ pc' = [pc EXCEPT ![Loop(i)] = OnQueryError(SvcOf(i)).pc]
            /\ arg' = [arg EXCEPT ![Loop(i)] = OnQueryError(SvcOf(i)).arg]
    /\ UNCHANGED <<watchList, refreshInterval, again, started, cancelled, dir, sel, mu,
                   conns, closes, nextH, result, committed, pre, stopReturned>>

\* time.Sleep(backoff(cm.refreshInterval)) is over; continue
Backoff(i) ==
    /\ pc[Loop(i)] = "backoff"
    /\ qerr' = [qerr EXCEPT ![i] = FALSE]
    /\ delay' = [delay EXCEPT ![i] = 0]
    /\ pc' = [pc EXCEPT ![Loop(i)] = CheckDone(cancelled)]
    /\ UNCHANGED <<watchList, refreshInterval, again, started, cancelled, dir, waitIdx,
                   sel, arg, mu, conns, closes, nextH, result, committed, pre,
                   stopReturned>>

\* the query returns the healthy entries and meta.LastIndex: the index is
\* recorded, an empty result goes to replaceConn(service, nil, ""), otherwise
\* one entry is drawn with rand.Intn
QueryOk(i) ==
    /\ pc[Loop(i)] = "query"
    /\ waitIdx' = [waitIdx EXCEPT ![i] = dir[SvcOf(i)].index]
    /\ again' = [again EXCEPT ![i] =
                   IF waitIdx[i] = dir[SvcOf(i)].index
                   THEN Cardinality(dir[SvcOf(i)].healthy) ELSE 0]
    /\ IF dir[SvcOf(i)].healthy = {}
       THEN /\ arg' = [arg EXCEPT ![Loop(i)] =
                         [svc |-> SvcOf(i), conn |-> NilConn, target |-> ""]]
            /\ pc' = [pc EXCEPT ![Loop(i)] = "r_lock"]
            /\ sel' = sel
       ELSE /\ \E inst \in dir[SvcOf(i)].healthy : sel' = [sel EXCEPT ![i] = inst]
            /\ pc' = [pc EXCEPT ![Loop(i)] = "resolve"]
            /\ arg' = arg
    /\ UNCHANGED <<watchList, refreshInterval, delay, started, cancelled, dir, qerr, mu,
                   conns, closes, nextH, result, committed, pre, stopReturned>>

\* a loop that sleeps after a failed resolution or dial as after a failed query
AfterAbandonSleeps(done) == "backoff"

\* the continue of a failed resolution or dial: back to the top of the loop
AfterAbandon(done) == CheckDone(done)

\* net.LookupHost(addr) fails
ResolveFail(i) ==
    /\ pc[Loop(i)] = "resolve"
    /\ sel' = [sel EXCEPT ![i] = NoInst]
    /\ pc' = [pc EXCEPT ![Loop(i)] = "resolve_err"]
    /\ UNCHANGED <<watchList, refreshInterval, delay, again, started, cancelled, dir, waitIdx, qerr, arg, mu, conns,
                   closes, nextH, result, committed, pre, stopReturned>>

\* net.LookupHost(addr) succeeds: target := fmt.Sprintf(addrTemplate, addr, port)
ResolveOk(i) ==
    /\ pc[Loop(i)] = "resolve"
    /\ arg' = [arg EXCEPT ![Loop(i)] =
                 [svc |-> SvcOf(i), conn |-> NilConn,
                  target |-> FormatTarget(AddrOf(sel[i]), sel[i].port)]]
    /\ sel' = [sel EXCEPT ![i] = NoInst]
    /\ pc' = [pc EXCEPT ![Loop(i)] = "dial"]
    /\ UNCHANGED <<watchList, refreshInterval, delay, again, started, cancelled, dir, waitIdx, qerr, mu, conns,
                   closes, nextH, result, committed, pre, stopReturned>>

\* grpc.NewClient fails
DialFail(i) ==
    /\ pc[Loop(i)] = "dial"
    /\ arg' = [arg EXCEPT ![Loop(i)] = NoArg]
    /\ pc' = [pc EXCEPT ![Loop(i)] = "dial_err"]
    /\ UNCHANGED <<watchList, refreshInterval, delay, again, started, cancelled, dir, waitIdx, qerr, sel, mu, conns,
                   closes, nextH, result, committed, pre, stopReturned>>

\* grpc.NewClient returns a new connection: cm.replaceConn(service, conn, target)
DialOk(i) ==
    /\ pc[Loop(i)] = "dial"
    /\ nextH <= MaxDials
    /\ arg' = [arg EXCEPT ![Loop(i)].conn = nextH]
    /\ nextH' = nextH + 1
    /\ pc' = [pc EXCEPT ![Loop(i)] = "r_lock"]
    /\ UNCHANGED <<watchList, refreshInterval, delay, again, started, cancelled, dir, waitIdx, qerr, sel, mu, conns,
                   closes, result, committed, pre, stopReturned>>

\* if err != nil { Warn; continue } after net.LookupHost or grpc.NewClient
Abandon(i) ==
    /\ pc[Loop(i)] \in {"resolve_err", "dial_err"}
    /\ again' = [again EXCEPT ![i] = 0]
    /\ pc' = [pc EXCEPT ![Loop(i)] = AfterAbandon(cancelled)]
    /\ UNCHANGED <<watchList, refreshInterval, delay, started, cancelled, dir, waitIdx,
                   qerr, sel, arg, mu, conns, closes, nextH, result, committed, pre,
                   stopReturned>>

(* ------------------------------ the directory -------------------------- *)
RECURSIVE IndexSum(_, _)
IndexSum(d, names) ==
    IF names = {} THEN 0
    ELSE LET n == CHOOSE x \in names : TRUE
         IN d[n].index + IndexSum(d, names \ {n})

\* how many changes the directory has seen: every index starts at 1 (a
\* Consul index is positive) and grows by one with each change
DirChanges == IndexSum(dir, Names) - Cardinality(Names)

\* the set of healthy instances of a watched service changes; its index grows
DirChange(service) ==
    /\ service \in Watched
    /\ DirChanges < MaxDirChanges
    /\ \E h \in (SUBSET Registered(service)) \ {dir[service].healthy} :
         dir' = [dir EXCEPT ![service] = [healthy |-> h, index |-> @.index + 1]]
    /\ UNCHANGED <<watchList, refreshInterval, delay, again, started, cancelled, pc, waitIdx, qerr, sel, arg, mu,
                   conns, closes, nextH, result, committed, pre, stopReturned>>

(* --------------------------- the whole program ------------------------- *)
Next ==
    \/ Start
    \/ Cancel
    \/ \E s \in Names : GetConn(s)
    \/ GetConnRUnlock
    \/ \E i \in LoopIds : QueryFail(i)
    \/ \E i \in LoopIds : Backoff(i)
    \/ \E i \in LoopIds : QueryOk(i)
    \/ \E i \in LoopIds : ResolveFail(i)
    \/ \E i \in LoopIds : ResolveOk(i)
    \/ \E i \in LoopIds : DialFail(i)
    \/ \E i \in LoopIds : DialOk(i)
    \/ \E i \in LoopIds : Abandon(i)
    \/ \E p \in Loops : ReplLock(p)
    \/ \E p \in Loops : ReplInstall(p)
    \/ \E p \in Loops : ReplUnlock(p)
    \/ \E p \in {Sup, Caller} : CloseAllLock(p)
    \/ \E p \in {Sup, Caller} : CloseAllReset(p)
    \/ \E p \in {Sup, Caller} : CloseAllUnlock(p)
    \/ \E s \in Names : DirChange(s)

Spec == Init /\ [][Next]_vars

(* ------------------- the pool driven directly, as the tests do --------- *)
\* the target strings a test passes: the formatted targets and ""
TestTargets ==
    {FormatTarget(AddrOf(inst), inst.port) : inst \in Instances} \cup {""}

\* cm.replaceConn(service, conn, target) with a new connection or nil
TestReplace(service, fresh, target) ==
    /\ pc[Caller] = "idle"
    /\ fresh => nextH <= MaxTestConns
    /\ result' = result
    /\ arg' = [arg EXCEPT ![Caller] =
                 [svc |-> service, conn |-> IF fresh THEN nextH ELSE NilConn,
                  target |-> target]]
    /\ nextH' = IF fresh THEN nextH + 1 ELSE nextH
    /\ pc' = [pc EXCEPT ![Caller] = "r_lock"]
    /\ UNCHANGED <<watchList, refreshInterval, delay, again, started, cancelled, dir, waitIdx, qerr, sel, mu, conns,
                   closes, committed, pre, stopReturned>>

PoolNext ==
    \/ \E s \in Names, fresh \in BOOLEAN, t \in TestTargets : TestReplace(s, fresh, t)
    \/ \E s \in Names : GetConn(s)
    \/ GetConnRUnlock
    \/ ReplLock(Caller)
    \/ ReplInstall(Caller)
    \/ ReplUnlock(Caller)
    \/ CloseAllLock(Caller)
    \/ CloseAllReset(Caller)
    \/ CloseAllUnlock(Caller)

PoolSpec == Init /\ [][PoolNext]_vars

(* ------------- the loops under a directory that keeps failing ---------- *)
\* every refresh interval WithRefreshInterval accepts
BackoffInit == \E d \in Intervals : InitFor(<<"users", "billing">>, d)

BackoffNext ==
    \/ Start
    \/ \E i \in LoopIds : QueryFail(i)
    \/ \E i \in LoopIds : Backoff(i)

BackoffSpec == BackoffInit /\ [][BackoffNext]_vars

(* --------------- a service list that names a service twice ------------- *)
DupInit == InitFor(<<"users", "users">>, RunInterval)

DupSpec == DupInit /\ [][Next]_vars

(* ------------------------- the scheduler is fair ----------------------- *)
\* the steps of one watchService goroutine
LoopStep(i) ==
    \/ QueryFail(i) \/ Backoff(i) \/ QueryOk(i)
    \/ ResolveFail(i) \/ ResolveOk(i) \/ DialFail(i) \/ DialOk(i) \/ Abandon(i)
    \/ ReplLock(Loop(i)) \/ ReplInstall(Loop(i)) \/ ReplUnlock(Loop(i))

\* every call a loop makes returns, a goroutine that waits in Lock() gets the
\* mutex (sync.RWMutex lets no writer starve), and whoever holds the mutex
\* runs on to its Unlock
Fairness ==
    /\ \A i \in LoopIds : SF_vars(LoopStep(i))
    /\ WF_vars(GetConnRUnlock)
    /\ \A p \in {Sup, Caller} : WF_vars(CloseAllReset(p) \/ CloseAllUnlock(p))

\* the program while the directory holds still
FairNext ==
    \/ Start
    \/ Cancel
    \/ \E s \in Names : GetConn(s)
    \/ GetConnRUnlock
    \/ \E i \in LoopIds : QueryFail(i)
    \/ \E i \in LoopIds : Backoff(i)
    \/ \E i \in LoopIds : QueryOk(i)
    \/ \E i \in LoopIds : ResolveFail(i)
    \/ \E i \in LoopIds : ResolveOk(i)
    \/ \E i \in LoopIds : DialFail(i)
    \/ \E i \in LoopIds : DialOk(i)
    \/ \E i \in LoopIds : Abandon(i)
    \/ \E p \in Loops : ReplLock(p)
    \/ \E p \in Loops : ReplInstall(p)
    \/ \E p \in Loops : ReplUnlock(p)
    \/ \E p \in {Sup, Caller} : CloseAllLock(p)
    \/ \E p \in {Sup, Caller} : CloseAllReset(p)
    \/ \E p \in {Sup, Caller} : CloseAllUnlock(p)

FairSpec == Init /\ [][FairNext]_vars /\ Fairness

(* ================================ claims =============================== *)
\* the handles the transport has opened so far
Opened == 1..(nextH - 1)
\* a goroutine has run replaceConn up to its deferred Unlock
Replaced(p) == pc[p] = "r_unlock"
\* a goroutine has run CloseAll up to its deferred Unlock
Drained(p) == pc[p] = "c_unlock"
\* the entry a service had when the running pool call took the lock
Had(service) == service \in DOMAIN pre.conns

\* C1: a replaceConn with a new connection and the target the service's entry
\* already has closes the new connection once, closes nothing else, leaves the
\* map as it was with the original connection unclosed, and a lookup of the
\* service still gives the original connection; so after every such call in
\* a row.
C1_SameTargetKeepsOriginal ==
    \A p \in Procs :
      ( /\ Replaced(p)
        /\ Had(arg[p].svc)
        /\ pre.conns[arg[p].svc].target = arg[p].target
        /\ arg[p].conn # NilConn )
      => /\ conns = pre.conns
         /\ closes = [pre.closes EXCEPT ![arg[p].conn] = @ + 1]
         /\ closes[arg[p].conn] = 1
         /\ closes[conns[arg[p].svc].conn] = 0
         /\ Lookup(conns, arg[p].svc).conn = pre.conns[arg[p].svc].conn
         /\ Lookup(conns, arg[p].svc).err = NoErr

\* the second same-target call in a row has returned its verdict: both new
\* connections are closed and the first one installed is still there
C1_Witness ==
    /\ Replaced(Caller)
    /\ Had(arg[Caller].svc)
    /\ pre.conns[arg[Caller].svc].target = arg[Caller].target
    /\ pre.conns[arg[Caller].svc].conn = 1
    /\ arg[Caller].conn = 3
    /\ closes[2] = 1
    /\ closes[3] = 1
    /\ closes[1] = 0

\* C2: a replaceConn with a new connection and a target other than the one
\* the service's entry has closes the old connection exactly once, does not
\* close the new one, and leaves the service's entry {target, new connection}
\* with every other entry as it was.
C2_NewTargetReplaces ==
    \A p \in Procs :
      ( /\ Replaced(p)
        /\ Had(arg[p].svc)
        /\ pre.conns[arg[p].svc].target # arg[p].target
        /\ arg[p].conn # NilConn )
      => /\ closes = [pre.closes EXCEPT ![pre.conns[arg[p].svc].conn] = @ + 1]
         /\ closes[pre.conns[arg[p].svc].conn] = 1
         /\ closes[arg[p].conn] = 0
         /\ DOMAIN conns = DOMAIN pre.conns
         /\ conns[arg[p].svc] = [target |-> arg[p].target, conn |-> arg[p].conn]
         /\ \A s \in DOMAIN conns \ {arg[p].svc} : conns[s] = pre.conns[s]

C2_Witness ==
    /\ Replaced(Caller)
    /\ Had(arg[Caller].svc)
    /\ pre.conns[arg[Caller].svc].target # arg[Caller].target
    /\ arg[Caller].conn # NilConn
    /\ Cardinality(DOMAIN conns) = 2
    /\ closes[pre.conns[arg[Caller].svc].conn] = 1

\* C3: a replaceConn with no new connection, whatever its target argument,
\* closes the connection of the service's entry and leaves the service
\* without an entry, so that a lookup of it gives ErrConnNotFound.
C3_NilRemoves ==
    \A p \in Procs :
      (Replaced(p) /\ arg[p].conn = NilConn)
      => /\ arg[p].svc \notin DOMAIN conns
         /\ Lookup(conns, arg[p].svc).err = ErrConnNotFound
         /\ Had(arg[p].svc) =>
              closes[pre.conns[arg[p].svc].conn] =
                pre.closes[pre.conns[arg[p].svc].conn] + 1

\* C4: the value GetConn computes is the one the latest committed mutation
\* left for the service: that entry's connection, not closed, or
\* ErrConnNotFound when that mutation left no entry.
C4_LookupSeesCommitted ==
    pc[Caller] = "g_runlock" =>
      IF result.svc \in DOMAIN committed
      THEN /\ result.conn = committed[result.svc].conn
           /\ result.err = NoErr
           /\ closes[result.conn] = 0
      ELSE /\ result.conn = NilConn
           /\ result.err = ErrConnNotFound

\* a lookup returns the second connection of a service, the first one
\* replaced and closed, while a loop has the next replaceConn under way
C4_Witness ==
    /\ pc[Caller] = "g_runlock"
    /\ result.conn = 2
    /\ closes[1] = 1
    /\ \E i \in LoopIds : pc[Loop(i)] = "r_lock" /\ arg[Loop(i)].svc = result.svc

\* C5: only watched services ever have an entry, and GetConn gives
\* ErrConnNotFound and no connection for a service that is not watched or has
\* no entry.
C5_MissIsNotFound ==
    /\ DOMAIN conns \subseteq Watched
    /\ (pc[Caller] = "g_runlock" /\
          (result.svc \notin Watched \/ result.svc \notin DOMAIN conns))
       => (result.err = ErrConnNotFound /\ result.conn = NilConn)

\* a lookup of a service outside the watch list while the pool holds entries
C5_Witness ==
    /\ pc[Caller] = "g_runlock"
    /\ result.svc \notin Watched
    /\ result.err = ErrConnNotFound
    /\ conns # EmptyMap

\* C6: Stop amounts to cancelling the context and draining: once Stop has
\* returned on a started manager, no loop begins another iteration.
C6_StopEndsDiscovery ==
    [][stopReturned =>
         \A i \in LoopIds : pc[Loop(i)] # "query" => pc'[Loop(i)] # "query"]_vars

\* C7: once the context is done, a loop that is polling, selecting or dialing
\* does not go on to call replaceConn.
C7_NoSubmitAfterCancel ==
    [][\A i \in LoopIds :
         (cancelled /\ pc[Loop(i)] \in {"query", "resolve", "dial"})
         => pc'[Loop(i)] # "r_lock"]_vars

\* C8: when the context is done and every goroutine Start launched has
\* ended, every connection the transport opened is closed and the pool is
\* empty.
C8_NoLeakAtShutdown ==
    ( /\ cancelled
      /\ pc[Sup] = "done"
      /\ \A i \in LoopIds : pc[Loop(i)] = "stopped"
      /\ pc[Caller] = "idle" )
    => /\ conns = EmptyMap
       /\ \A h \in Opened : closes[h] >= 1

\* C9: CloseAll closes each connection the map held once, closes nothing
\* else, and leaves the map empty; on an empty map it closes nothing.
C9_CloseAllDrains ==
    \A p \in Procs :
      Drained(p) =>
        /\ conns = EmptyMap
        /\ \A h \in Handles :
             closes[h] = pre.closes[h] +
               (IF \E s \in DOMAIN pre.conns : pre.conns[s].conn = h THEN 1 ELSE 0)

\* the drain of a pool holding two entries, with a loop's replaceConn waiting
C9_Witness ==
    /\ Drained(Sup)
    /\ Cardinality(DOMAIN pre.conns) = 2
    /\ \E i \in LoopIds : pc[Loop(i)] = "r_lock"

\* C10: a query that fails changes neither the map nor any connection and
\* sends the loop to its backoff sleep, from which it goes on to its next
\* iteration (or ends, the context being done), again without touching the
\* pool.
C10_QueryFailureKeepsPool ==
    [][\A i \in LoopIds :
         /\ (pc[Loop(i)] = "query" /\ qerr'[i])
            => /\ pc'[Loop(i)] = "backoff"
               /\ conns' = conns
               /\ closes' = closes
               /\ committed' = committed
         /\ (pc[Loop(i)] = "backoff" /\ pc'[Loop(i)] # "backoff")
            => /\ pc'[Loop(i)] \in {"query", "stopped"}
               /\ conns' = conns
               /\ closes' = closes]_vars

\* a loop sleeps after a failed query while the pool serves the connection it
\* installed before
C10_Witness ==
    \E i \in LoopIds :
      /\ pc[Loop(i)] = "backoff"
      /\ qerr[i]
      /\ SvcOf(i) \in DOMAIN conns
      /\ closes[conns[SvcOf(i)].conn] = 0
      /\ mu.writer = NoProc

\* C11: a failed query leaves a loop's change-index as it was, and the index
\* changes only in a successful query, to the index that query returned.
C11_IndexKeptOnFailure ==
    [][\A i \in LoopIds :
         /\ (pc[Loop(i)] = "query" /\ qerr'[i]) => waitIdx'[i] = waitIdx[i]
         /\ waitIdx'[i] # waitIdx[i] =>
              /\ pc[Loop(i)] = "query"
              /\ ~qerr'[i]
              /\ waitIdx'[i] = dir[SvcOf(i)].index]_vars

\* a query has failed after the directory moved on: the loop sleeps with the
\* index of its last successful query
C11_Witness ==
    \E i \in LoopIds :
        /\ pc[Loop(i)] = "backoff"
        /\ qerr[i]
        /\ waitIdx[i] = 1
        /\ dir[SvcOf(i)].index = 2

C13_FailureAbandonsIteration ==
    [][\A i \in LoopIds :
         /\ (pc[Loop(i)] \in {"resolve", "dial"}
               /\ pc'[Loop(i)] \in {"resolve_err", "dial_err"}) =>
              (conns' = conns /\ closes' = closes)
         /\ (pc[Loop(i)] \in {"resolve_err", "dial_err"}
               /\ pc'[Loop(i)] # pc[Loop(i)]) =>
              /\ pc'[Loop(i)] = (IF cancelled THEN "stopped" ELSE "query")
              /\ conns' = conns
              /\ closes' = closes
              /\ arg'[Loop(i)] = NoArg
              /\ delay'[i] = 0]_vars

\* a dial has failed while the pool holds an open connection for the service
C13_Witness ==
    \E i \in LoopIds :
        /\ pc[Loop(i)] = "dial_err"
        /\ SvcOf(i) \in DOMAIN conns
        /\ closes[conns[SvcOf(i)].conn] = 0

\* C14 as stated: when a poll reports the non-empty set the loop's previous
\* successful poll reported, and resolution and dial succeed, the replaceConn
\* of the iteration leaves the entry the pool holds as it is and closes only
\* the new connection.
C14_SameSetNoChurn ==
    \A i \in LoopIds :
        (/\ Replaced(Loop(i))
         /\ again[i] >= 1
         /\ arg[Loop(i)].conn # NilConn
         /\ Had(SvcOf(i))) =>
            /\ conns = pre.conns
            /\ closes = CloseConn(pre.closes, arg[Loop(i)].conn)

\* C14: the same, when the iteration has also drawn the instance whose target
\* the entry in the pool has.
C14_SamePickNoChurn ==
    \A i \in LoopIds :
        (/\ Replaced(Loop(i))
         /\ again[i] >= 1
         /\ arg[Loop(i)].conn # NilConn
         /\ Had(SvcOf(i))
         /\ pre.conns[SvcOf(i)].target = arg[Loop(i)].target) =>
            /\ conns = pre.conns
            /\ closes = CloseConn(pre.closes, arg[Loop(i)].conn)

\* the second of two polls of the same set has dialed the target installed
\* and its replaceConn has closed the new connection
C14_Witness ==
    \E i \in LoopIds :
        /\ Replaced(Loop(i))
        /\ again[i] >= 1
        /\ arg[Loop(i)].conn # NilConn
        /\ Had(SvcOf(i))
        /\ pre.conns[SvcOf(i)].target = arg[Loop(i)].target
        /\ closes[arg[Loop(i)].conn] = 1
        /\ closes[conns[SvcOf(i)].conn] = 0

\* C15: whenever no writer holds the mutex, the pool holds at most one entry
\* per watched service, each with a connection of its own that the transport
\* has opened and nobody has closed.
C15_PoolEntriesOpen ==
    mu.writer = NoProc =>
        /\ DOMAIN conns \subseteq Watched
        /\ \A s \in DOMAIN conns :
             /\ conns[s].conn \in Opened
             /\ closes[conns[s].conn] = 0
             /\ \A t \in DOMAIN conns : conns[t].conn = conns[s].conn => t = s

\* after a Stop and a replaced connection the pool, unlocked, holds an entry
C15_Witness ==
    /\ mu.writer = NoProc
    /\ stopReturned
    /\ closes[1] = 1
    /\ \E s \in DOMAIN conns : conns[s].conn = 2

\* C16: every connection the transport has opened is closed, or installed in
\* the pool, or in the hands of a loop that is inside replaceConn with it; a
\* loop at the top of an iteration has none in its hands.
C16_NoLeakUnderChurn ==
    \A h \in Opened :
        \/ closes[h] >= 1
        \/ \E s \in DOMAIN conns : conns[s].conn = h
        \/ \E p \in Loops :
             /\ pc[p] \in {"r_lock", "r_install", "r_unlock"}
             /\ arg[p].conn = h

\* the only loop that has dialed is at the top of an iteration after it has
\* replaced its first connection by its second
C16_Witness ==
    /\ pc[Loop(1)] = "query"
    /\ waitIdx[2] = 0
    /\ SvcOf(1) \in DOMAIN conns
    /\ conns[SvcOf(1)].conn = 2
    /\ closes[1] = 1
    /\ closes[2] = 0

\* C17: once the context is done every started loop ends, and a loop that has
\* ended takes no further step.
C17_LoopsStop ==
    /\ (started /\ cancelled) ~> (\A i \in LoopIds : pc[Loop(i)] = "stopped")
    /\ [][\A i \in LoopIds :
            pc[Loop(i)] = "stopped" =>
                /\ pc'[Loop(i)] = "stopped"
                /\ waitIdx'[i] = waitIdx[i]
                /\ arg'[Loop(i)] = arg[Loop(i)]]_vars

\* both loops have ended after at least one of them dialed
C17_Witness ==
    /\ cancelled
    /\ nextH > 1
    /\ \A i \in LoopIds : pc[Loop(i)] = "stopped"

\* C18: no two loops are in replaceConn for the same service.
C18_OneWriterPerService ==
    \A i, j \in LoopIds :
        (/\ i # j
         /\ pc[Loop(i)] \in {"r_lock", "r_install", "r_unlock"}
         /\ pc[Loop(j)] \in {"r_lock", "r_install", "r_unlock"}) =>
            arg[Loop(i)].svc # arg[Loop(j)].svc

\* C19: a goroutine holds the mutex as a writer only inside replaceConn or
\* CloseAll and as a reader only inside GetConn, so a loop in its query, its
\* backoff, its resolution or its dial holds none.
C19_NoLockWhileSuspended ==
    \A p \in Procs :
        /\ mu.writer = p => pc[p] \in {"r_install", "r_unlock", "c_reset", "c_unlock"}
        /\ p \in mu.readers => pc[p] = "g_runlock"

\* a lookup reads the pool while one loop is in its dial and the other in
\* its backoff
C19_Witness ==
    /\ pc[Loop(1)] = "dial"
    /\ pc[Loop(2)] = "backoff"
    /\ Caller \in mu.readers
    /\ result.conn # NilConn

\* C20: Close is called at most once on a connection.
C20_CloseAtMostOnce == \A h \in Handles : closes[h] <= 1

\* the transport's connections have been closed by a replaceConn and by the
\* CloseAll of Stop and of Start's goroutine, each once
C20_Witness ==
    /\ stopReturned
    /\ pc[Sup] = "done"
    /\ closes[1] = 1
    /\ closes[2] = 1


====
